---- MODULE Spec2Model ----
(***************************************************************************)
(* claude-code-zellij: the pane serialization lock of ZellijBackend (the   *)
(* reference TypeScript backend and the ZellijBackendImpl text the patcher *)
(* injects), the patch engine patchCliSource and the command line that     *)
(* installs, checks and uninstalls the patch.                              *)
(***************************************************************************)
EXTENDS Integers, Sequences, FiniteSets, TLC

\* ------------------------------------------------------------------ bounds
\* Number of concurrent callers of createTeammatePaneInSwarmView.
NumCallers == 3
\* resetZellijBackendState is called at most MaxResets times.
MaxResets == 1
\* Number of callers in a process that calls resetZellijBackendState.
ResetCallers == 2

VARIABLES
  impl,              \* "ref": src/ZellijBackend.ts, "inj": the injected ZellijBackendImpl
  lockQueue,         \* the promise the module-level lockQueue / zellijLockQueue holds
  resolved,          \* the promises that are resolved
  prev,              \* per caller: the promise its acquire waits for (prev / w)
  pc,                \* per caller: where its create+send sequence stands
  pendingRelease,    \* this._pendingRelease: the caller whose release it holds, or None
  paneCreationCount, \* this.paneCreationCount / this.paneCount
  isFirst,           \* per caller: the isFirst / z local of its create call
  focus,             \* the caller whose pane has the Zellij focus, or None
  wroteInto,         \* per caller: the owner of the pane its write-chars went to
  reqOrder,          \* history: callers in the order they called acquire
  acqOrder,          \* history: callers in the order their acquire resolved
  releaseCalls,      \* history: per caller, how often its release function was invoked
  resets             \* history: how often resetZellijBackendState was called

lockVars == <<impl, lockQueue, resolved, prev, pc, pendingRelease, paneCreationCount,
              isFirst, focus, wroteInto, reqOrder, acqOrder, releaseCalls, resets>>

\* The variables of patchCliSource (the patcher runs in a process of its own).
VARIABLES
  ppc,         \* where patchCliSource stands
  source,      \* its argument
  code,        \* let code = source
  applied,     \* const applied
  failed,      \* const failed
  warnings,    \* const warnings
  names,       \* const names = extractMinifiedNames(code)
  result,      \* the PatchResult returned, Null until the return
  run,         \* history: 1 for the first run, 2 for the run on its output
  origSource,  \* history: the source of the first run
  steps        \* history: extractMinifiedNames and the edits this run has carried out

patchVars == <<ppc, source, code, applied, failed, warnings, names, result, run,
               origSource, steps>>

\* The variables of the command line (index.ts): one target path and its
\* sibling backup path, and the command that is running.
VARIABLES
  cpc,         \* where the command line stands: idle between two commands
  target,      \* the content of the file at the target path, Null if there is none
  bak,         \* the content of <target>.bak, Null if there is none
  cliResult,   \* cmdInstall: const result = patchCliSource(source)
  lastCmd,     \* history: the last command, what it reported, its exit status
  target0,     \* history: target when the last command started
  bak0,        \* history: bak when the last command started
  preInstall   \* history: target right before the last successful install

cliVars == <<cpc, target, bak, cliResult, lastCmd, target0, bak0, preInstall>>

vars == <<lockVars, patchVars, cliVars>>

Callers == 1 .. NumCallers
None == -1                \* null / no caller
InitialPromise == 0       \* Promise.resolve() held by lockQueue at module load
\* The promise next created by caller c's acquire is named c; calling the
\* release function of caller c resolves promise c.

Impls == {"ref", "inj"}

LockInit ==
  /\ resets = 0
  /\ impl \in Impls
  /\ lockQueue = InitialPromise
  /\ resolved = {InitialPromise}
  /\ prev = [c \in Callers |-> None]
  /\ pc = [c \in Callers |-> "idle"]
  /\ pendingRelease = None
  /\ paneCreationCount = 0
  /\ isFirst = [c \in Callers |-> FALSE]
  /\ focus = None
  /\ wroteInto = [c \in Callers |-> None]
  /\ reqOrder = <<>>
  /\ acqOrder = <<>>
  /\ releaseCalls = [c \in Callers |-> 0]

\* The backend does not run in the patcher's process.
LockOff ==
  /\ resets = 0
  /\ impl = "ref"
  /\ lockQueue = InitialPromise
  /\ resolved = {InitialPromise}
  /\ prev = [c \in Callers |-> None]
  /\ pc = [c \in Callers |-> "off"]
  /\ pendingRelease = None
  /\ paneCreationCount = 0
  /\ isFirst = [c \in Callers |-> FALSE]
  /\ focus = None
  /\ wroteInto = [c \in Callers |-> None]
  /\ reqOrder = <<>>
  /\ acqOrder = <<>>
  /\ releaseCalls = [c \in Callers |-> 0]

\* release(): resolve is idempotent, so a second call changes nothing.
Resolve(p, res) == res \cup {p}

\* The set of promises resolved after invoking the release function of caller c.
InvokeRelease(c, res) == Resolve(c, res)

\* The history of release invocations after the callers in seq had theirs invoked.
RECURSIVE CountCalls(_, _)
CountCalls(calls, seq) ==
  IF seq = <<>> THEN calls
  ELSE CountCalls([calls EXCEPT ![Head(seq)] = @ + 1], Tail(seq))

\* Mutant of CallCreate: the new promise is never stored in lockQueue.
CallCreateNoChain(c) ==
  /\ pc[c] = "idle"
  /\ prev' = [prev EXCEPT ![c] = lockQueue]
  /\ lockQueue' = lockQueue
  /\ pc' = [pc EXCEPT ![c] = "awaitLock"]
  /\ reqOrder' = Append(reqOrder, c)
  /\ UNCHANGED <<patchVars, cliVars, resets, impl, resolved, pendingRelease, paneCreationCount, isFirst, focus,
                 wroteInto, acqOrder, releaseCalls>>

\* createTeammatePaneInSwarmView up to its first await: the synchronous part of
\* acquireLock (a new pending promise replaces lockQueue, the old one is awaited).
CallCreate(c) ==
  /\ pc[c] = "idle"
  /\ prev' = [prev EXCEPT ![c] = lockQueue]
  /\ lockQueue' = c
  /\ pc' = [pc EXCEPT ![c] = "awaitLock"]
  /\ reqOrder' = Append(reqOrder, c)
  /\ UNCHANGED <<patchVars, cliVars, resets, impl, resolved, pendingRelease, paneCreationCount, isFirst, focus,
                 wroteInto, acqOrder, releaseCalls>>

\* Mutant of AcquireResolve: the release function is handed out without waiting for prev.
AcquireResolveNoWait(c) ==
  /\ pc[c] = "awaitLock"
  /\ pc' = [pc EXCEPT ![c] = "locked"]
  /\ acqOrder' = Append(acqOrder, c)
  /\ UNCHANGED <<patchVars, cliVars, resets, impl, lockQueue, resolved, prev, pendingRelease, paneCreationCount,
                 isFirst, focus, wroteInto, reqOrder, releaseCalls>>

\* prev is resolved: prev.then(() => release) resolves with the release function.
AcquireResolve(c) ==
  /\ pc[c] = "awaitLock"
  /\ prev[c] \in resolved
  /\ pc' = [pc EXCEPT ![c] = "locked"]
  /\ acqOrder' = Append(acqOrder, c)
  /\ UNCHANGED <<patchVars, cliVars, resets, impl, lockQueue, resolved, prev, pendingRelease, paneCreationCount,
                 isFirst, focus, wroteInto, reqOrder, releaseCalls>>

\* The continuation of the await: the reference backend stores the release
\* function, both compute isFirst, count the pane and start new-pane.
PendingAfterAcquire(c) == IF impl = "ref" THEN c ELSE pendingRelease

\* Mutant of CreateResume: the pane is not counted before new-pane.
CreateResumeNoCount(c) ==
  /\ pc[c] = "locked"
  /\ pendingRelease' = (IF impl = "ref" THEN c ELSE pendingRelease)
  /\ isFirst' = [isFirst EXCEPT ![c] = (paneCreationCount = 0)]
  /\ paneCreationCount' = paneCreationCount
  /\ pc' = [pc EXCEPT ![c] = "newPane"]
  /\ UNCHANGED <<patchVars, cliVars, resets, impl, lockQueue, resolved, prev, focus, wroteInto,
                 reqOrder, acqOrder, releaseCalls>>

CreateResume(c) ==
  /\ pc[c] = "locked"
  /\ pendingRelease' = PendingAfterAcquire(c)
  /\ isFirst' = [isFirst EXCEPT ![c] = (paneCreationCount = 0)]
  /\ paneCreationCount' = paneCreationCount + 1
  /\ pc' = [pc EXCEPT ![c] = "newPane"]
  /\ UNCHANGED <<patchVars, cliVars, resets, impl, lockQueue, resolved, prev, focus, wroteInto, reqOrder,
                 acqOrder, releaseCalls>>

\* Mutant of CreateFailReleases: the failure path of create releases nothing.
CreateFailReleasesNone(c) == <<>>

\* The release functions invoked, in order, when new-pane ended with a
\* non-zero code. Reference: release() then _pendingRelease = null, and the
\* catch block finds null. Injected: K(), and the catch block invokes
\* this._pendingRelease when set and K() otherwise.
CreateFailReleases(c) ==
  IF impl = "ref" THEN <<c>>
  ELSE IF pendingRelease # None THEN <<c, pendingRelease>> ELSE <<c, c>>

RECURSIVE ResolveAll(_, _)
ResolveAll(seq, res) ==
  IF seq = <<>> THEN res ELSE ResolveAll(Tail(seq), InvokeRelease(Head(seq), res))

\* zellij action new-pane ended. ok: exit code 0. made: the pane was created
\* and took the focus (always when ok; a timed-out action may have made it too).
NewPaneResult(c) ==
  /\ pc[c] = "newPane"
  /\ \E ok \in BOOLEAN, made \in BOOLEAN :
       /\ ok => made
       /\ focus' = IF made THEN c ELSE focus
       /\ IF ok
            THEN /\ pendingRelease' = IF impl = "inj" THEN c ELSE pendingRelease
                 /\ pc' = [pc EXCEPT ![c] = "delay"]
                 /\ UNCHANGED <<resolved, releaseCalls>>
            ELSE /\ resolved' = ResolveAll(CreateFailReleases(c), resolved)
                 /\ releaseCalls' = CountCalls(releaseCalls, CreateFailReleases(c))
                 /\ pendingRelease' = None
                 /\ pc' = [pc EXCEPT ![c] = "createFailed"]
  /\ UNCHANGED <<patchVars, cliVars, resets, impl, lockQueue, prev, paneCreationCount, isFirst, wroteInto,
                 reqOrder, acqOrder>>

\* Mutant of DelayDone: the lock is released when create returns, not after send.
DelayDoneRelease(c) ==
  /\ pc[c] = "delay"
  /\ pc' = [pc EXCEPT ![c] = "created"]
  /\ resolved' = InvokeRelease(c, resolved)
  /\ releaseCalls' = [releaseCalls EXCEPT ![c] = @ + 1]
  /\ pendingRelease' = None
  /\ UNCHANGED <<patchVars, cliVars, resets, impl, lockQueue, prev, paneCreationCount,
                 isFirst, focus, wroteInto, reqOrder, acqOrder>>

\* The 200 ms pane initialisation delay ended: create returns {paneId, isFirstTeammate}.
DelayDone(c) ==
  /\ pc[c] = "delay"
  /\ pc' = [pc EXCEPT ![c] = "created"]
  /\ UNCHANGED <<patchVars, cliVars, resets, impl, lockQueue, resolved, prev, pendingRelease, paneCreationCount,
                 isFirst, focus, wroteInto, reqOrder, acqOrder, releaseCalls>>

\* The caller goes on to sendCommandToPane, which starts write-chars.
CallSend(c) ==
  /\ pc[c] = "created"
  /\ pc' = [pc EXCEPT ![c] = "writeChars"]
  /\ UNCHANGED <<patchVars, cliVars, resets, impl, lockQueue, resolved, prev, pendingRelease, paneCreationCount,
                 isFirst, focus, wroteInto, reqOrder, acqOrder, releaseCalls>>

\* Mutant of SendFinallyReleases: sendCommandToPane has no finally block.
SendFinallyReleasesNone == <<>>

\* The finally block of sendCommandToPane: invoke and clear this._pendingRelease.
SendFinallyReleases == IF pendingRelease # None THEN <<pendingRelease>> ELSE <<>>

SendFinally ==
  /\ resolved' = ResolveAll(SendFinallyReleases, resolved)
  /\ releaseCalls' = CountCalls(releaseCalls, SendFinallyReleases)
  /\ pendingRelease' = None

\* zellij action write-chars ended: the characters went to the focused pane.
WriteCharsResult(c) ==
  /\ pc[c] = "writeChars"
  /\ wroteInto' = [wroteInto EXCEPT ![c] = focus]
  /\ \E ok \in BOOLEAN :
       IF ok
         THEN /\ pc' = [pc EXCEPT ![c] = "enter"]
              /\ UNCHANGED <<resolved, releaseCalls, pendingRelease>>
         ELSE /\ SendFinally
              /\ pc' = [pc EXCEPT ![c] = "sendFailed"]
  /\ UNCHANGED <<patchVars, cliVars, resets, impl, lockQueue, prev, paneCreationCount, isFirst, focus,
                 reqOrder, acqOrder>>

\* zellij action write 13 ended; either way the finally block runs.
EnterResult(c) ==
  /\ pc[c] = "enter"
  /\ SendFinally
  /\ \E ok \in BOOLEAN :
       pc' = [pc EXCEPT ![c] = IF ok THEN "done" ELSE "sendFailed"]
  /\ UNCHANGED <<patchVars, cliVars, resets, impl, lockQueue, prev, paneCreationCount, isFirst, focus,
                 wroteInto, reqOrder, acqOrder>>

\* Mutant of resetZellijBackendState: the new queue is a promise nobody resolves.
resetPendingQueue ==
  /\ impl = "ref"
  /\ \E c \in Callers : pc[c] # "off"
  /\ resets < MaxResets
  /\ lockQueue # InitialPromise
  /\ lockQueue' = NumCallers + 1
  /\ resets' = resets + 1
  /\ UNCHANGED <<patchVars, cliVars, impl, resolved, prev, pc, pendingRelease, paneCreationCount,
                 isFirst, focus, wroteInto, reqOrder, acqOrder, releaseCalls>>

\* resetZellijBackendState (reference backend, for tests): lockQueue is
\* replaced by a new resolved promise; holders and waiters are not touched.
resetZellijBackendState ==
  /\ impl = "ref"
  /\ \E c \in Callers : pc[c] # "off"
  /\ resets < MaxResets
  /\ lockQueue # InitialPromise
  /\ lockQueue' = InitialPromise
  /\ resets' = resets + 1
  /\ UNCHANGED <<patchVars, cliVars, impl, resolved, prev, pc, pendingRelease, paneCreationCount,
                 isFirst, focus, wroteInto, reqOrder, acqOrder, releaseCalls>>

LockNext ==
  \E c \in Callers :
    \/ CallCreate(c)
    \/ AcquireResolve(c)
    \/ CreateResume(c)
    \/ NewPaneResult(c)
    \/ DelayDone(c)
    \/ CallSend(c)
    \/ WriteCharsResult(c)
    \/ EnterResult(c)

\* ====================================================================
\* The patch engine (patchCliSource). A program text is a sequence of
\* lexemes: literal chunks of the minified cli.js, each written as the
\* text it stands for, and identifiers. A substring search of the code
\* is a search for a contiguous run of lexemes.
\* ====================================================================

\* ------------------------------------------------------------------ bounds
\* An input differs from the reference cli.js in at most MaxDefects places.
MaxDefects == 2
\* patchCliSource is run at most MaxRuns times in a row (on its own output).
MaxRuns == 2

\* Identifiers. \w+ matches the word identifiers only; [A-Za-z0-9_$]+ matches
\* the dollar ones too. WordTail is the longest \w+ suffix of an identifier.
WordIdents ==
  {"h", "g", "K", "q", "Y", "LTA", "EM6", "CI4", "qW1", "ER", "CA", "Ts", "bq", "mq", "Z9"}
DollarIdents == {"$g"}
Idents == WordIdents \cup DollarIdents
IsWord(t) == t \in WordIdents
IsIdent(t) == t \in Idents
WordTail(t) == IF t = "$g" THEN "g" ELSE t

\* string | null
Null == [isNull |-> TRUE]
Some(x) == [isNull |-> FALSE, val |-> x]

Min(S) == CHOOSE x \in S : \A y \in S : x <= y

\* needle occurs in text at index i
OccursAt(text, needle, i) ==
  /\ i >= 1
  /\ i + Len(needle) - 1 <= Len(text)
  /\ \A k \in 1 .. Len(needle) : text[i + k - 1] = needle[k]

\* String.prototype.indexOf, 1-based; 0 when absent
IndexOf(text, needle) ==
  LET hits == {i \in 1 .. Len(text) : OccursAt(text, needle, i)}
  IN IF hits = {} THEN 0 ELSE Min(hits)

\* String.prototype.includes
Includes(text, needle) == IndexOf(text, needle) # 0

\* code.slice(0, pos) + frag + code.slice(pos), pos being IndexOf's 1-based index
InsertAt(text, pos, frag) ==
  SubSeq(text, 1, pos - 1) \o frag \o SubSeq(text, pos, Len(text))

\* String.prototype.replace with a string pattern: the first occurrence only
ReplaceFirst(text, needle, repl) ==
  LET pos == IndexOf(text, needle)
  IN IF pos = 0 THEN text
     ELSE SubSeq(text, 1, pos - 1) \o repl \o SubSeq(text, pos + Len(needle), Len(text))

\* while (code.includes(find)) code = code.replace(find, replace)
RECURSIVE ReplaceAll(_, _, _)
ReplaceAll(text, needle, repl) ==
  IF Includes(text, needle) THEN ReplaceAll(ReplaceFirst(text, needle, repl), needle, repl)
  ELSE text

\* ---------------------------------------------------------------- lexemes
BackendRegistry == "BackendRegistry"
TypeTmux == "type=\"tmux\""
ZellijBackendImpl == "ZellijBackendImpl"
IsInsideZellijSync == "isInsideZellijSync"
ClassKw == "class "
ClassKwWide == "class  "
SelectedTmux == "] Selected: tmux (running inside tmux session)\");let "
BackendIs == "={backend:"
IsNativeTail == ",isNative:!0,needsIt2Setup:!1},"
AwaitKw == "(await "
DashV == ",[\"-V\"])).code===0"
CaseTmux == "case\"tmux\":return "
CaseIterm2 == "case\"iterm2\":return "
StartingDetection == "] Starting backend detection...\")"
InsideTmux == "insideTmux=${"
LetKAwait == "let K=await "
\* In the next two lexemes ~ stands for the backquote of the template literal.
NotInTmux == "] Not in tmux or iTerm2, tmux available: ${K}~)"
OpenTemplate == "(~"
NoBackend == "] ERROR: No pane backend available\")"
ElseQ == "else q=!"
Msg1 == "To use agent swarms, install tmux:"
Msg1New == "To use agent swarms, install tmux or start a Zellij session (zellij):"
Msg2 == "To use agent swarms, install tmux using your system's package manager."
Msg2New == "To use agent swarms, install tmux or Zellij using your system's package manager."

\* ------------------------------------------------------------------ inputs
\* The reference cli.js, reduced to the statements the patcher looks at, in
\* one variant per statement. The first value of each field is the reference.
Variants ==
  [ cls    : {"full", "wide", "bare", "none"},   \* class LTA{type="tmux"
    casc   : {"ok", "badref", "none"},           \* h("[BackendRegistry] Selected: tmux ...");let Y=EM6();return qW1=Y,ER={...},ER
    exec   : {"ok", "none"},                     \* (await CA(bq,["-V"])).code===0
    disp   : {"ok", "iterm", "none"},            \* case"tmux":return EM6();case"iterm2":return CI4()
    logs   : {"ok", "none"},                     \* h("[BackendRegistry] Starting backend detection...")
    sync   : {"ok", "none"},                     \* insideTmux=${mq()}
    anch   : {"ok", "noprefix", "none"},         \* let K=await Ts();if(h(~[BackendRegistry] Not in tmux ...~)
    err    : {"ok", "none"},                     \* throw h("[BackendRegistry] ERROR: No pane backend available")
    m1     : {"one", "two", "none"},             \* first message literal
    m2     : {"one", "none"},                    \* second message literal
    inproc : {"ok", "none"},                     \* else q=!mq()
    sig    : {"none", "impl", "sync"},           \* a stray ZellijBackendImpl / isInsideZellijSync
    logFn  : {"h", "g", "$g"},                   \* the name of the host's logger
    execFn : {"CA", "K"} ]                       \* the name of the host's exec helper

Reference ==
  [ cls |-> "full", casc |-> "ok", exec |-> "ok", disp |-> "ok", logs |-> "ok",
    sync |-> "ok", anch |-> "ok", err |-> "ok", m1 |-> "one", m2 |-> "one",
    inproc |-> "ok", sig |-> "none", logFn |-> "h", execFn |-> "CA" ]

Defects(v) == Cardinality({f \in DOMAIN Reference : v[f] # Reference[f]})

SegLogs(v) ==
  IF v.logs = "ok" THEN <<v.logFn, "(\"", "[", BackendRegistry, StartingDetection, ";">>
  ELSE <<>>

SegCasc(v) ==
  IF v.casc = "none" THEN <<>>
  ELSE <<v.logFn, "(\"", "[", BackendRegistry, SelectedTmux, "Y", "=", "EM6", "()",
         ";return ", "qW1", "=", (IF v.casc = "ok" THEN "Y" ELSE "q"), ",", "ER",
         BackendIs, "Y", IsNativeTail, "ER", ";">>

SegAnch(v) ==
  IF v.anch = "none" THEN <<>>
  ELSE (IF v.anch = "ok" THEN <<LetKAwait, "Ts", "()", ";if(">> ELSE <<>>)
       \o <<v.logFn, OpenTemplate, "[", BackendRegistry, NotInTmux, ";">>

SegErr(v) ==
  IF v.err = "ok" THEN <<"throw ", v.logFn, "(\"", "[", BackendRegistry, NoBackend, ";">>
  ELSE <<>>

SegDisp(v) ==
  IF v.disp = "none" THEN <<>>
  ELSE (IF v.disp = "ok" THEN <<CaseTmux, "EM6", "()", ";">> ELSE <<>>)
       \o <<CaseIterm2, "CI4", "()", ";">>

SegExec(v) == IF v.exec = "ok" THEN <<AwaitKw, v.execFn, "(", "bq", DashV, ";">> ELSE <<>>

SegCls(v) ==
  IF v.cls = "none" THEN <<>>
  ELSE IF v.cls = "bare" THEN <<TypeTmux, ";">>
  ELSE <<(IF v.cls = "full" THEN ClassKw ELSE ClassKwWide), "LTA", "{", TypeTmux, ";">>

SegSync(v) == IF v.sync = "ok" THEN <<InsideTmux, "mq", "()", "}", ";">> ELSE <<>>

SegInproc(v) == IF v.inproc = "ok" THEN <<ElseQ, "mq", "()", ";">> ELSE <<>>

SegM1(v) ==
  IF v.m1 = "none" THEN <<>>
  ELSE IF v.m1 = "one" THEN <<Msg1>> ELSE <<Msg1, ";", Msg1>>

SegM2(v) == IF v.m2 = "one" THEN <<Msg2>> ELSE <<>>

SegSig(v) ==
  IF v.sig = "none" THEN <<>>
  ELSE IF v.sig = "impl" THEN <<ZellijBackendImpl>> ELSE <<IsInsideZellijSync>>

BuildSource(v) ==
  SegLogs(v) \o SegCasc(v) \o SegAnch(v) \o SegErr(v) \o SegDisp(v) \o SegExec(v)
  \o SegCls(v) \o SegSync(v) \o SegInproc(v) \o SegM1(v) \o SegM2(v) \o SegSig(v)

\* Files that are not a Claude Code cli.js at all.
ForeignTexts ==
  { <<>>,
    <<"[", BackendRegistry, "]">>,
    <<TypeTmux>>,
    <<ZellijBackendImpl>>,
    <<"[", BackendRegistry, "]", IsInsideZellijSync>>,
    <<TypeTmux, ZellijBackendImpl>> }

Inputs ==
  {BuildSource(v) : v \in {w \in Variants : Defects(w) <= MaxDefects}} \cup ForeignTexts

\* ------------------------------------------------------------------ guards
\* Mutant of Recognized: the two marker tests are joined the wrong way round,
\* so that one marker is enough.
RecognizedEither(txt) ==
  Includes(txt, <<BackendRegistry>>) \/ Includes(txt, <<TypeTmux>>)

\* !( !code.includes("BackendRegistry") || !code.includes('type="tmux"') )
Recognized(txt) ==
  ~ (~ Includes(txt, <<BackendRegistry>>) \/ ~ Includes(txt, <<TypeTmux>>))

\* Mutant of AlreadyPatched: only the class name is looked for.
AlreadyPatchedClassOnly(txt) == Includes(txt, <<ZellijBackendImpl>>)

\* Mutant of AlreadyPatched: the guard looks for a name the generator never emits.
AlreadyPatchedOtherName(txt) == Includes(txt, <<"ZellijPaneBackend">>)

\* code.includes("ZellijBackendImpl") || code.includes("isInsideZellijSync")
AlreadyPatched(txt) ==
  Includes(txt, <<ZellijBackendImpl>>) \/ Includes(txt, <<IsInsideZellijSync>>)

NotRecognizedLabel == "File does not appear to be Claude Code cli.js"
AlreadyPatchedLabel == "File appears to already be patched with Zellij support"
ExtractionFailedLabel ==
  "Could not extract minified variable names. The cli.js structure may have changed significantly."

\* The PatchResult of an early return.
FailureResult(label) ==
  [ success |-> FALSE, patchedSource |-> Null, appliedPatches |-> <<>>,
    failedPatches |-> <<label>>, warnings |-> <<>> ]

\* -------------------------------------------------------- extractMinifiedNames
\* Each pattern is given as the predicate "the regular expression matches
\* starting at lexeme i"; String.prototype.match returns the leftmost match.

\* /class\s+([A-Za-z0-9_$]+)\{type="tmux"/
ClassAt(txt, i) ==
  /\ i + 3 <= Len(txt)
  /\ txt[i] \in {ClassKw, ClassKwWide}
  /\ IsIdent(txt[i + 1])
  /\ txt[i + 2] = "{"
  /\ txt[i + 3] = TypeTmux

\* /\[BackendRegistry\] Selected: tmux \(running inside tmux session\)"\);let (\w+)=(\w+)\(\);
\*  return (\w+)=\1,(\w+)=\{backend:\1,isNative:!0,needsIt2Setup:!1\},\4/
CascadeAt(txt, i) ==
  /\ i + 16 <= Len(txt)
  /\ txt[i] = "[" /\ txt[i + 1] = BackendRegistry /\ txt[i + 2] = SelectedTmux
  /\ IsWord(txt[i + 3]) /\ txt[i + 4] = "="
  /\ IsWord(txt[i + 5]) /\ txt[i + 6] = "()" /\ txt[i + 7] = ";return "
  /\ IsWord(txt[i + 8]) /\ txt[i + 9] = "="
  /\ txt[i + 10] = txt[i + 3] /\ txt[i + 11] = ","
  /\ IsWord(txt[i + 12]) /\ txt[i + 13] = BackendIs
  /\ txt[i + 14] = txt[i + 3] /\ txt[i + 15] = IsNativeTail
  /\ txt[i + 16] = txt[i + 12]

\* /\(await\s+(\w+)\(\w+,\["-V"\]\)\)\.code===0/
ExecAt(txt, i) ==
  /\ i + 4 <= Len(txt)
  /\ txt[i] = AwaitKw /\ IsWord(txt[i + 1]) /\ txt[i + 2] = "("
  /\ IsWord(txt[i + 3]) /\ txt[i + 4] = DashV

\* /case"iterm2":return\s+(\w+)\(\)/
Iterm2At(txt, i) ==
  /\ i + 2 <= Len(txt)
  /\ txt[i] = CaseIterm2 /\ IsWord(txt[i + 1]) /\ txt[i + 2] = "()"

\* /(\w+)\("\[BackendRegistry\] Starting backend detection\.\.\."\)/
\* The pattern is not anchored on the left: of a name with a dollar sign it
\* captures the word characters that end it.
LogAt(txt, i) ==
  /\ i + 4 <= Len(txt)
  /\ IsIdent(txt[i]) /\ txt[i + 1] = "(\"" /\ txt[i + 2] = "["
  /\ txt[i + 3] = BackendRegistry /\ txt[i + 4] = StartingDetection

\* /insideTmux=\$\{(\w+)\(\)\}/
TmuxSyncAt(txt, i) ==
  /\ i + 3 <= Len(txt)
  /\ txt[i] = InsideTmux /\ IsWord(txt[i + 1]) /\ txt[i + 2] = "()" /\ txt[i + 3] = "}"

\* The index of the leftmost match of a pattern, 0 when there is none.
FirstMatch(hits) == IF hits = {} THEN 0 ELSE Min(hits)

tmuxClassMatch(txt) == FirstMatch({i \in 1 .. Len(txt) : ClassAt(txt, i)})
cascadeMatch(txt) == FirstMatch({i \in 1 .. Len(txt) : CascadeAt(txt, i)})
execMatch(txt) == FirstMatch({i \in 1 .. Len(txt) : ExecAt(txt, i)})
iterm2Match(txt) == FirstMatch({i \in 1 .. Len(txt) : Iterm2At(txt, i)})
logMatch(txt) == FirstMatch({i \in 1 .. Len(txt) : LogAt(txt, i)})
tmuxSyncMatch(txt) == FirstMatch({i \in 1 .. Len(txt) : TmuxSyncAt(txt, i)})

\* What a capture group of a pattern that did not match reads as.
Undefined == "undefined"
Capture(txt, m, offset) == IF m = 0 THEN Undefined ELSE txt[m + offset]

\* The returned object literal, every role read from its match.
Bundle(txt) ==
  [ tmuxBackendClass   |-> Capture(txt, tmuxClassMatch(txt), 1),
    tmuxFactory        |-> Capture(txt, cascadeMatch(txt), 5),
    iterm2Factory      |-> Capture(txt, iterm2Match(txt), 1),
    cachedBackendRef   |-> Capture(txt, cascadeMatch(txt), 8),
    cachedResultVar    |-> Capture(txt, cascadeMatch(txt), 12),
    execFn             |-> Capture(txt, execMatch(txt), 1),
    logFn              |-> WordTail(Capture(txt, logMatch(txt), 0)),
    isInsideTmuxSyncFn |-> Capture(txt, tmuxSyncMatch(txt), 1) ]

\* Mutant of extractMinifiedNames: the null check of the logger pattern is missing.
extractMinifiedNamesNoLogCheck(txt) ==
  IF tmuxClassMatch(txt) = 0 THEN Null
  ELSE IF cascadeMatch(txt) = 0 THEN Null
  ELSE IF execMatch(txt) = 0 THEN Null
  ELSE IF iterm2Match(txt) = 0 THEN Null
  ELSE IF tmuxSyncMatch(txt) = 0 THEN Null
  ELSE Some(Bundle(txt))

extractMinifiedNames(txt) ==
  IF tmuxClassMatch(txt) = 0 THEN Null
  ELSE IF cascadeMatch(txt) = 0 THEN Null
  ELSE IF execMatch(txt) = 0 THEN Null
  ELSE IF iterm2Match(txt) = 0 THEN Null
  ELSE IF logMatch(txt) = 0 THEN Null
  ELSE IF tmuxSyncMatch(txt) = 0 THEN Null
  ELSE Some(Bundle(txt))

\* ------------------------------------------------------------ generated code
\* The literal chunks are shortened (...); the spliced names are in full.
ZELLIJ_DETECTION_CODE(n) ==
  << "function ", IsInsideZellijSync,
     "(){return process.env.ZELLIJ===\"0\"&&!!process.env.ZELLIJ_SESSION_NAME}\nasync function isInsideZellij(){return ",
     IsInsideZellijSync,
     "()}\nasync function isZellijAvailable(){try{return(await ",
     n.execFn, "(\"which\",[\"zellij\"])).code===0}catch{return!1}}" >>

ZELLIJ_BACKEND_CLASS(n) ==
  << "var zellijLockQueue=Promise.resolve();\nvar zellijBackendRegistered=null;\n...\nclass ",
     ZellijBackendImpl,
     "{type=\"zellij\";displayName=\"Zellij\";...async isAvailable(){return ",
     IsInsideZellijSync,
     "()||await isZellijAvailable()}...async createTeammatePaneInSwarmView(A,q){let K,Y=new Promise((z)=>{K=z}),w=zellijLockQueue;zellijLockQueue=Y;await w;try{...let $=await ",
     n.execFn,
     "(\"zellij\",[\"action\",\"new-pane\",\"--name\",A]);if($.code!==0){K();throw Error(...)}this._pendingRelease=K;",
     n.logFn,
     "(\"[ZellijBackend] Created pane for \"+A+...);...}catch(z){...}}async sendCommandToPane(A,q,K){try{let Y=await ",
     n.execFn,
     "(\"zellij\",[\"action\",\"write-chars\",q]);...;let z=await ",
     n.execFn,
     "(\"zellij\",[\"action\",\"write\",\"13\"]);...;",
     n.logFn,
     "(\"[ZellijBackend] Sent command to pane \"+A)}finally{...}}...async rebalancePanes(A,q){",
     n.logFn,
     "(\"[ZellijBackend] rebalancePanes: no-op\")}async killPane(A,q){",
     n.logFn,
     "(\"[ZellijBackend] killPane \"+A+\": best-effort\");return!0}...}\nregisterZellijBackend(",
     ZellijBackendImpl, ");" >>

zellijCheck(n) ==
  << "if(", IsInsideZellijSync, "()){", n.logFn, "(\"", "[", BackendRegistry,
     "] Selected: zellij (running inside Zellij session)\");let ZB=createZellijBackend();return ",
     n.cachedBackendRef, "=ZB,", n.cachedResultVar,
     "={backend:ZB,isNative:!0,needsIt2Setup:!1},", n.cachedResultVar, "}" >>

zellijFallback(n) ==
  << "{let ZA=await isZellijAvailable();if(", n.logFn, "(\"", "[", BackendRegistry,
     "] Checking zellij availability: \"+ZA),ZA){", n.logFn, "(\"", "[", BackendRegistry,
     "] Selected: zellij (external)\");let ZB=createZellijBackend();return ",
     n.cachedBackendRef, "=ZB,", n.cachedResultVar,
     "={backend:ZB,isNative:!1,needsIt2Setup:!1},", n.cachedResultVar, "}}" >>

\* ------------------------------------------------------------------- edits
\* The outcome of one edit: the label goes to applied, failed or warnings.
Applied(c, label) == [kind |-> "applied", code |-> c, label |-> label]
Failed(c, label) == [kind |-> "failed", code |-> c, label |-> label]
Warning(c, label) == [kind |-> "warning", code |-> c, label |-> label]

tmuxBackendAnchor(n) == <<ClassKw, n.tmuxBackendClass, "{", TypeTmux>>
cascadeAnchor == <<"[", BackendRegistry, NotInTmux>>
errorAnchor == <<"throw ", "h", "(\"", "[", BackendRegistry, NoBackend>>
backendByTypeAnchor(n) ==
  <<CaseTmux, n.tmuxFactory, "()", ";", CaseIterm2, n.iterm2Factory, "()">>
inProcessAnchor(n) == <<ElseQ, n.isInsideTmuxSyncFn, "()">>

\* PATCH 1: inject the detection functions and the backend class before the
\* TmuxBackend class.
Patch1(txt, n) ==
  IF Includes(txt, tmuxBackendAnchor(n))
  THEN Applied(InsertAt(txt, IndexOf(txt, tmuxBackendAnchor(n)),
                        ZELLIJ_DETECTION_CODE(n) \o <<"\n">> \o ZELLIJ_BACKEND_CLASS(n) \o <<"\n">>),
               "Injected ZellijBackend class and detection functions")
  ELSE Failed(txt, "PATCH 1: Could not find TmuxBackend class anchor")

\* prefix.match(/let K=await\s+\w+\(\);if\(\w+\(~$/): the lexemes that end
\* right before the anchor (the 200 character window holds them, the host's
\* names being short); the value is the index the statement starts at, or 0.
letKMatch(txt, anchorPos) ==
  IF /\ anchorPos - 6 >= 1
     /\ txt[anchorPos - 6] = LetKAwait
     /\ IsWord(txt[anchorPos - 5])
     /\ txt[anchorPos - 4] = "()"
     /\ txt[anchorPos - 3] = ";if("
     /\ IsWord(txt[anchorPos - 2])
     /\ txt[anchorPos - 1] = OpenTemplate
  THEN anchorPos - 6
  ELSE 0

\* PATCH 2: insert the Zellij branch in the backend cascade, at the start of
\* the statement that holds the anchor.
Patch2(txt, n) ==
  IF Includes(txt, cascadeAnchor)
  THEN LET fullAnchorStart == letKMatch(txt, IndexOf(txt, cascadeAnchor))
       IN IF fullAnchorStart # 0
          THEN Applied(InsertAt(txt, fullAnchorStart, zellijCheck(n)),
                       "Inserted Zellij detection in backend cascade")
          ELSE Failed(txt, "PATCH 2: Found cascade log message but could not locate statement start")
  ELSE Failed(txt, "PATCH 2: Could not find cascade anchor for Zellij detection")

\* PATCH 3: add Zellij as the external fallback before the error.
Patch3(txt, n) ==
  IF Includes(txt, errorAnchor)
  THEN Applied(ReplaceFirst(txt, errorAnchor, zellijFallback(n) \o errorAnchor),
               "Added Zellij as external fallback before error")
  ELSE Failed(txt, "PATCH 3: Could not find error anchor for Zellij fallback")

\* PATCH 4: add the "zellij" case to getBackendByType.
Patch4(txt, n) ==
  IF Includes(txt, backendByTypeAnchor(n))
  THEN Applied(ReplaceFirst(txt, backendByTypeAnchor(n),
                            backendByTypeAnchor(n) \o <<";case\"zellij\":return createZellijBackend()">>),
               "Added \"zellij\" case to getBackendByType")
  ELSE Failed(txt, "PATCH 4: Could not find getBackendByType anchor")

\* PATCH 5: errorMsgReplacements; the labels carry find.slice(0, 40).
errorMsgReplacements ==
  << [ find |-> Msg1, replace |-> Msg1New,
       appliedLabel |-> "Updated error message: \"To use agent swarms, install tmux:...\"",
       warningLabel |->
         "Error message not found (may already be patched): \"To use agent swarms, install tmux:...\"" ],
     [ find |-> Msg2, replace |-> Msg2New,
       appliedLabel |-> "Updated error message: \"To use agent swarms, install tmux using ...\"",
       warningLabel |->
         "Error message not found (may already be patched): \"To use agent swarms, install tmux using ...\"" ] >>

\* Mutant of Patch5: a message literal that is absent is recorded as a failure.
Patch5AbsentFails(txt, i) ==
  LET r == errorMsgReplacements[i]
  IN IF Includes(txt, <<r.find>>)
     THEN Applied(ReplaceAll(txt, <<r.find>>, <<r.replace>>), r.appliedLabel)
     ELSE Failed(txt, r.warningLabel)

\* One round of the loop over errorMsgReplacements.
Patch5(txt, i) ==
  LET r == errorMsgReplacements[i]
  IN IF Includes(txt, <<r.find>>)
     THEN Applied(ReplaceAll(txt, <<r.find>>, <<r.replace>>), r.appliedLabel)
     ELSE Warning(txt, r.warningLabel)

\* PATCH 6: make isInProcessEnabled() recognize Zellij.
Patch6(txt, n) ==
  IF Includes(txt, inProcessAnchor(n))
  THEN Applied(ReplaceFirst(txt, inProcessAnchor(n),
                            inProcessAnchor(n) \o <<"&&!", IsInsideZellijSync, "()">>),
               "Patched isInProcessEnabled to recognize Zellij sessions")
  ELSE Failed(txt, "PATCH 6: Could not find isInProcessEnabled anchor for Zellij check")

\* Mutant of PatchReport: the text is returned whether or not an edit failed.
PatchReportAlwaysText(c, a, f, w) ==
  [ success |-> (Len(f) = 0), patchedSource |-> Some(c),
    appliedPatches |-> a, failedPatches |-> f, warnings |-> w ]

\* The final return statement.
PatchReport(c, a, f, w) ==
  [ success |-> (Len(f) = 0),
    patchedSource |-> IF Len(f) = 0 THEN Some(c) ELSE Null,
    appliedPatches |-> a, failedPatches |-> f, warnings |-> w ]

\* ------------------------------------------------------------ patchCliSource
\* The labels of the outcomes of one kind, in the order of the edits.
Labels(rs, k) ==
  LET sel == SelectSeq(rs, LAMBDA r : r.kind = k)
  IN [i \in 1 .. Len(sel) |-> sel[i].label]

\* patchCliSource as one call: the value it returns for src.
patchCliSource(src) ==
  IF ~ Recognized(src) THEN FailureResult(NotRecognizedLabel)
  ELSE IF AlreadyPatched(src) THEN FailureResult(AlreadyPatchedLabel)
  ELSE IF extractMinifiedNames(src).isNull THEN FailureResult(ExtractionFailedLabel)
  ELSE LET n == extractMinifiedNames(src).val
           r1 == Patch1(src, n)
           r2 == Patch2(r1.code, n)
           r3 == Patch3(r2.code, n)
           r4 == Patch4(r3.code, n)
           r5 == Patch5(r4.code, 1)
           r6 == Patch5(r5.code, 2)
           r7 == Patch6(r6.code, n)
           rs == <<r1, r2, r3, r4, r5, r6, r7>>
       IN PatchReport(r7.code, Labels(rs, "applied"), Labels(rs, "failed"),
                      Labels(rs, "warning"))

\* The state of patchCliSource on entry, called with src.
Enter(src) ==
  /\ source = src
  /\ code = src
  /\ applied = <<>>
  /\ failed = <<>>
  /\ warnings = <<>>
  /\ names = Null
  /\ result = Null
  /\ steps = <<>>

PatchInit ==
  /\ \E src \in Inputs : Enter(src) /\ origSource = src
  /\ ppc = "guards"
  /\ run = 1

\* The patcher does not run in the host process.
PatchOff == Enter(<<>>) /\ origSource = <<>> /\ ppc = "off" /\ run = 0

\* Mutant of GuardVerdict: the already-patched check comes first.
GuardVerdictPatchedFirst(c) ==
  IF AlreadyPatched(c) THEN "alreadyPatched"
  ELSE IF ~ Recognized(c) THEN "notRecognized"
  ELSE "proceed"

\* The two guards in the order of the code.
GuardVerdict(c) ==
  IF ~ Recognized(c) THEN "notRecognized"
  ELSE IF AlreadyPatched(c) THEN "alreadyPatched"
  ELSE "proceed"

\* An early return with one failure.
ReturnFailure(label) ==
  /\ result' = Some(FailureResult(label))
  /\ ppc' = "done"

Guards ==
  /\ ppc = "guards"
  /\ IF GuardVerdict(code) = "notRecognized" THEN ReturnFailure(NotRecognizedLabel)
     ELSE IF GuardVerdict(code) = "alreadyPatched" THEN ReturnFailure(AlreadyPatchedLabel)
     ELSE ppc' = "extract" /\ UNCHANGED result
  /\ UNCHANGED <<lockVars, cliVars, source, code, applied, failed, warnings, names, run, origSource, steps>>

Extract ==
  /\ ppc = "extract"
  /\ names' = extractMinifiedNames(code)
  /\ steps' = Append(steps, "extract")
  /\ IF names' = Null THEN ReturnFailure(ExtractionFailedLabel)
     ELSE ppc' = "patch1" /\ UNCHANGED result
  /\ UNCHANGED <<lockVars, cliVars, source, code, applied, failed, warnings, run, origSource>>

\* Mutant of Tally: an edit that fails ends the run, the later edits are skipped.
TallyStopsAtFailure(step, r, nextPc) ==
  /\ code' = r.code
  /\ applied' = IF r.kind = "applied" THEN Append(applied, r.label) ELSE applied
  /\ failed' = IF r.kind = "failed" THEN Append(failed, r.label) ELSE failed
  /\ warnings' = IF r.kind = "warning" THEN Append(warnings, r.label) ELSE warnings
  /\ steps' = Append(steps, step)
  /\ ppc' = IF r.kind = "failed" THEN "return" ELSE nextPc
  /\ UNCHANGED <<lockVars, cliVars, source, names, result, run, origSource>>

\* Carry out one edit: take its text and put its label on the right list.
Tally(step, r, nextPc) ==
  /\ code' = r.code
  /\ applied' = IF r.kind = "applied" THEN Append(applied, r.label) ELSE applied
  /\ failed' = IF r.kind = "failed" THEN Append(failed, r.label) ELSE failed
  /\ warnings' = IF r.kind = "warning" THEN Append(warnings, r.label) ELSE warnings
  /\ steps' = Append(steps, step)
  /\ ppc' = nextPc
  /\ UNCHANGED <<lockVars, cliVars, source, names, result, run, origSource>>

ApplyPatch1 == ppc = "patch1" /\ Tally("patch1", Patch1(code, names.val), "patch2")
ApplyPatch2 == ppc = "patch2" /\ Tally("patch2", Patch2(code, names.val), "patch3")
ApplyPatch3 == ppc = "patch3" /\ Tally("patch3", Patch3(code, names.val), "patch4")
ApplyPatch4 == ppc = "patch4" /\ Tally("patch4", Patch4(code, names.val), "patch5.1")
ApplyPatch5a == ppc = "patch5.1" /\ Tally("patch5.1", Patch5(code, 1), "patch5.2")
ApplyPatch5b == ppc = "patch5.2" /\ Tally("patch5.2", Patch5(code, 2), "patch6")
ApplyPatch6 == ppc = "patch6" /\ Tally("patch6", Patch6(code, names.val), "return")

Return ==
  /\ ppc = "return"
  /\ result' = Some(PatchReport(code, applied, failed, warnings))
  /\ ppc' = "done"
  /\ UNCHANGED <<lockVars, cliVars, source, code, applied, failed, warnings, names, run, origSource, steps>>

\* patchCliSource is run again, on the text the last run returned.
Reapply ==
  /\ ppc = "done"
  /\ run < MaxRuns
  /\ result.val.success
  /\ run' = run + 1
  /\ origSource' = origSource
  /\ ppc' = "guards"
  /\ source' = result.val.patchedSource.val
  /\ code' = result.val.patchedSource.val
  /\ applied' = <<>>
  /\ failed' = <<>>
  /\ warnings' = <<>>
  /\ names' = Null
  /\ result' = Null
  /\ steps' = <<>>
  /\ UNCHANGED <<lockVars, cliVars>>

PatchNext ==
  \/ Guards
  \/ Extract
  \/ ApplyPatch1
  \/ ApplyPatch2
  \/ ApplyPatch3
  \/ ApplyPatch4
  \/ ApplyPatch5a
  \/ ApplyPatch5b
  \/ ApplyPatch6
  \/ Return
  \/ Reapply

\* ---------------------------------------------------------------- command line
\* The files a target path holds over time: two versions of cli.js the patch
\* applies to, a version without the error anchor, a version whose logger
\* has another name, a version that has isInsideZellijSync in it already,
\* and a file that is not a cli.js.
CliTexts ==
  { BuildSource(Reference),
    BuildSource([Reference EXCEPT !.m2 = "none"]),
    BuildSource([Reference EXCEPT !.err = "none"]),
    BuildSource([Reference EXCEPT !.logFn = "g"]),
    BuildSource([Reference EXCEPT !.sig = "sync"]),
    <<TypeTmux>> }

CliCommands == {"install", "uninstall", "check"}

NoCmd == [cmd |-> "none", outcome |-> "none", exit |-> 0]

\* The command line before its first command: no backup yet.
CliInit ==
  /\ cpc = "idle"
  /\ target \in {Null} \cup {Some(t) : t \in CliTexts}
  /\ bak = Null
  /\ cliResult = Null
  /\ lastCmd = NoCmd
  /\ target0 = target
  /\ bak0 = Null
  /\ preInstall = Null

\* The command line is not run.
CliOff ==
  /\ cpc = "off"
  /\ target = Null
  /\ bak = Null
  /\ cliResult = Null
  /\ lastCmd = NoCmd
  /\ target0 = Null
  /\ bak0 = Null
  /\ preInstall = Null

\* resolveCliJs: the path when a file is there (given or found), else null.
resolveCliJs == IF target.isNull THEN Null ELSE Some("cli.js")

\* The process ends: by process.exit(status) or by running off the end of
\* the main switch, which is exit status 0.
Exit(cmd, outcome, status) ==
  /\ lastCmd' = [cmd |-> cmd, outcome |-> outcome, exit |-> status]
  /\ cpc' = "idle"

\* A command starts.
Start ==
  /\ cpc = "idle"
  /\ target0' = target
  /\ bak0' = bak

\* main switch: resolveCliJs returned null, "if (cliJs)" skips the command
\* and the switch breaks.
MainNotFound ==
  /\ Start
  /\ resolveCliJs = Null
  /\ \E cmd \in CliCommands : Exit(cmd, "notFound", 0)
  /\ UNCHANGED <<lockVars, patchVars, target, bak, cliResult, preInstall>>

\* Mutant of InstallVerdict: the result of patchCliSource is not looked at.
InstallVerdictIgnored(r) == "proceed"

\* cmdInstall: if (!result.success || !result.patchedSource) ... process.exit(1)
InstallVerdict(r) ==
  IF ~ r.success \/ r.patchedSource.isNull THEN "exit1" ELSE "proceed"

\* cmdInstall up to the exit of a failed patch.
cmdInstallPatch ==
  /\ Start
  /\ resolveCliJs # Null
  /\ LET r == patchCliSource(target.val)
     IN IF InstallVerdict(r) = "exit1"
        THEN /\ Exit("install", "patchFailed", 1)
             /\ cliResult' = Null
        ELSE /\ cpc' = "backup"
             /\ lastCmd' = [cmd |-> "install", outcome |-> "running", exit |-> 0]
             /\ cliResult' = Some(r)
  /\ UNCHANGED <<lockVars, patchVars, target, bak, preInstall>>

\* Mutant of BackupAfterInstall: no backup is made.
BackupNeverCopied(b, t) == b

\* Mutant of BackupAfterInstall: the backup is copied whether or not one exists.
BackupAlwaysCopied(b, t) == t

\* if (!fs.existsSync(backupPath)) fs.copyFileSync(cliJsPath, backupPath)
BackupAfterInstall(b, t) == IF b.isNull THEN t ELSE b

cmdInstallBackup ==
  /\ cpc = "backup"
  /\ bak' = BackupAfterInstall(bak, target)
  /\ cpc' = "write"
  /\ UNCHANGED <<lockVars, patchVars, target, cliResult, lastCmd, target0, bak0, preInstall>>

\* fs.writeFileSync(cliJsPath, result.patchedSource) and the end of cmdInstall.
cmdInstallWrite ==
  /\ cpc = "write"
  /\ target' = Some(cliResult.val.patchedSource.val)
  /\ preInstall' = target0
  /\ cliResult' = Null
  /\ Exit("install", "patched", 0)
  /\ UNCHANGED <<lockVars, patchVars, bak, target0, bak0>>

\* Mutant of removePatch: the existence of the backup is not tested.
removePatchNoTest(t, b) == [ok |-> TRUE, target |-> IF b.isNull THEN t ELSE b]

\* removePatch: what it returns and what the target holds afterwards.
removePatch(t, b) ==
  IF b.isNull THEN [ok |-> FALSE, target |-> t]
  ELSE [ok |-> TRUE, target |-> b]

cmdUninstall ==
  /\ Start
  /\ resolveCliJs # Null
  /\ LET r == removePatch(target, bak)
     IN /\ target' = r.target
        /\ IF r.ok THEN Exit("uninstall", "restored", 0)
           ELSE Exit("uninstall", "noBackup", 1)
  /\ UNCHANGED <<lockVars, patchVars, bak, cliResult, preInstall>>

\* cmdCheck: what it reports; it returns normally in every case.
CheckStatus(txt) ==
  IF Includes(txt, <<ZellijBackendImpl>>) THEN "alreadyPatched"
  ELSE IF patchCliSource(txt).success THEN "ready"
  ELSE "cannotPatch"

cmdCheck ==
  /\ Start
  /\ resolveCliJs # Null
  /\ Exit("check", CheckStatus(target.val), 0)
  /\ UNCHANGED <<lockVars, patchVars, target, bak, cliResult, preInstall>>

\* The file at the target path is replaced from outside, between two
\* commands (Claude Code is installed or updates itself).
ExternalReplace ==
  /\ cpc = "idle"
  /\ \E t \in CliTexts : target # Some(t) /\ target' = Some(t)
  /\ target0' = target'
  /\ bak0' = bak
  /\ preInstall' = Null
  /\ lastCmd' = [cmd |-> "external", outcome |-> "replaced", exit |-> 0]
  /\ UNCHANGED <<lockVars, patchVars, cpc, bak, cliResult>>

CliNext ==
  \/ MainNotFound
  \/ cmdInstallPatch
  \/ cmdInstallBackup
  \/ cmdInstallWrite
  \/ cmdUninstall
  \/ cmdCheck
  \/ ExternalReplace

\* -------------------------------------------------------------- specification
\* One of the three runs: the backend inside the host, patchCliSource on
\* its own, or the command line.
Init ==
  \/ LockInit /\ PatchOff /\ CliOff
  \/ LockOff /\ PatchInit /\ CliOff
  \/ LockOff /\ PatchOff /\ CliInit

Next == LockNext \/ PatchNext \/ CliNext

Spec == Init /\ [][Next]_vars

\* Fairness: microtasks run, every external zellij action ends (exec has a
\* 10 s timeout), the delay timer fires, and a caller whose create returned
\* goes on to sendCommandToPane. Calling create at all is not forced.
LockFairness ==
  \A c \in Callers :
    /\ WF_vars(AcquireResolve(c))
    /\ WF_vars(CreateResume(c))
    /\ WF_vars(NewPaneResult(c))
    /\ WF_vars(DelayDone(c))
    /\ WF_vars(CallSend(c))
    /\ WF_vars(WriteCharsResult(c))
    /\ WF_vars(EnterResult(c))

FairSpec == Init /\ [][Next]_vars /\ LockFairness

\* The reference backend in a test process, where resetZellijBackendState is
\* called too, with ResetCallers callers.
ResetInit ==
  /\ impl = "ref"
  /\ resets = 0
  /\ lockQueue = InitialPromise
  /\ resolved = {InitialPromise}
  /\ prev = [c \in Callers |-> None]
  /\ pc = [c \in Callers |-> IF c <= ResetCallers THEN "idle" ELSE "off"]
  /\ pendingRelease = None
  /\ paneCreationCount = 0
  /\ isFirst = [c \in Callers |-> FALSE]
  /\ focus = None
  /\ wroteInto = [c \in Callers |-> None]
  /\ reqOrder = <<>>
  /\ acqOrder = <<>>
  /\ releaseCalls = [c \in Callers |-> 0]
  /\ PatchOff
  /\ CliOff

ResetNext == LockNext \/ resetZellijBackendState

ResetSpec == ResetInit /\ [][ResetNext]_vars

\* ------------------------------------------------------------------ claims
InSeq(x, seq) == \E i \in 1 .. Len(seq) : seq[i] = x
PosIn(x, seq) == CHOOSE i \in 1 .. Len(seq) : seq[i] = x

\* Caller c is between the resolution of its acquire and its own release call.
Holding(c) == InSeq(c, acqOrder) /\ releaseCalls[c] = 0

\* C1: mutual exclusion - at most one caller is between the resolution of its
\* acquire and its own release call at any instant.
C1_MutualExclusion == Cardinality({c \in Callers : Holding(c)}) <= 1

\* C1 witness: one caller holds the lock while another one is queued behind it.
C1_Witness ==
  \E c, d \in Callers : c # d /\ Holding(c) /\ pc[c] = "writeChars" /\ pc[d] = "awaitLock"

\* C2: FIFO hand-over - acquires resolve in exactly the order of the requests,
\* and a request's acquired section begins only after every earlier request
\* has called release.
C2_FifoHandOver ==
  /\ Len(acqOrder) <= Len(reqOrder)
  /\ \A i \in 1 .. Len(acqOrder) :
       /\ acqOrder[i] = reqOrder[i]
       /\ \A j \in 1 .. (i - 1) : releaseCalls[reqOrder[j]] >= 1

\* C2 witness: every caller requested and acquired, the requests not in caller order.
C2_Witness ==
  /\ Len(acqOrder) = NumCallers
  /\ reqOrder[1] # 1

\* Caller c's new-pane has run and its write-chars / Enter sequence has not ended.
InSection(c) == pc[c] \in {"delay", "created", "writeChars", "enter"}

\* C3: create+send is serialized as a whole - while a caller is between its
\* new-pane and the end of its write sequence no other new-pane runs (its pane
\* keeps the focus), and a command is only ever written into the caller's own pane.
C3_CreateSendSerialized ==
  \A c \in Callers :
    /\ InSection(c) => focus = c
    /\ pc[c] \in {"enter", "sendFailed", "done"} => wroteInto[c] = c

\* C3 witness: a caller has written its command while another caller, queued
\* behind it, waits, and an earlier caller's section is already over.
C3_Witness ==
  \E c, d, e \in Callers :
    /\ pc[c] = "enter" /\ wroteInto[c] = c
    /\ pc[d] = "awaitLock"
    /\ pc[e] \in {"done", "sendFailed"}

\* C4: a failed operation never leaves the lock held - when the error of a
\* failed create or send has reached the caller, its release has been invoked
\* and its promise is resolved.
C4_FailureReleasesLock ==
  \A c \in Callers :
    pc[c] \in {"createFailed", "sendFailed"} => (c \in resolved /\ releaseCalls[c] >= 1)

\* C4 witness: one caller's create failed and another caller's send failed.
C4_Witness ==
  \E c, d \in Callers : pc[c] = "createFailed" /\ pc[d] = "sendFailed"

\* C5: liveness of the queue - a queued acquire eventually resolves, also
\* when an earlier holder's section raised an error.
C5_QueueLiveness ==
  \A c \in Callers : (pc[c] = "awaitLock") ~> InSeq(c, acqOrder)

\* C5 witness: a caller queued behind one whose create failed has acquired.
C5_Witness ==
  \E c, d \in Callers :
    /\ pc[c] = "createFailed"
    /\ InSeq(d, acqOrder) /\ PosIn(c, reqOrder) < PosIn(d, reqOrder)

\* ------------------------------------------------------- claims: patch engine
\* The PatchResult returned (read only when ppc = "done").
Res == result.val

\* The input lacks one of the two baseline markers.
MissingMarker(src) ==
  ~ Includes(src, <<BackendRegistry>>) \/ ~ Includes(src, <<TypeTmux>>)

\* The input carries one of the two names of the injected code.
CarriesSignature(src) ==
  Includes(src, <<ZellijBackendImpl>>) \/ Includes(src, <<IsInsideZellijSync>>)

EditSteps == {"patch1", "patch2", "patch3", "patch4", "patch5.1", "patch5.2", "patch6"}

\* C6: report invariant - every PatchResult returned has success equal to
\* "failedPatches is empty" and a patchedSource that is non-null iff success.
C6_ReportInvariant ==
  ppc = "done" =>
    /\ ~ result.isNull
    /\ Res.success = (Res.failedPatches = <<>>)
    /\ (~ Res.patchedSource.isNull) = Res.success

\* C6 witness: a full edit run returned with some edits applied and one failed.
C6_Witness ==
  /\ ppc = "done"
  /\ Len(steps) = 8
  /\ Len(Res.failedPatches) = 1
  /\ Len(Res.appliedPatches) >= 1

\* C7 as stated: an input that carries the injected signature is reported as
\* already patched, also when it lacks a baseline marker.
C7_AlreadyPatchedFirst ==
  (ppc = "done" /\ CarriesSignature(source)) =>
    Res = FailureResult(AlreadyPatchedLabel)

\* C7 as amended: the not-recognized check takes priority over the
\* already-patched check, which takes priority over extraction - an input
\* with the signature is reported as not recognized when it lacks a baseline
\* marker and as already patched otherwise, and is never extracted from.
C7_GuardPrecedence ==
  CarriesSignature(source) =>
    /\ steps = <<>>
    /\ ppc \in {"guards", "done"}
    /\ ppc = "done" =>
         Res = FailureResult(IF MissingMarker(source) THEN NotRecognizedLabel
                             ELSE AlreadyPatchedLabel)

\* C7 witness: an input with the signature and without the type tag was
\* reported as not recognized.
C7_Witness ==
  /\ ppc = "done"
  /\ run = 1
  /\ CarriesSignature(source)
  /\ Includes(source, <<BackendRegistry>>)
  /\ ~ Includes(source, <<TypeTmux>>)
  /\ Res.failedPatches = <<NotRecognizedLabel>>

\* C8: an input that lacks either baseline marker gets the not-recognized
\* failure with no applied edits, and neither extractMinifiedNames nor any
\* edit ever runs on it.
C8_NotRecognizedNoExtraction ==
  (ppc # "off" /\ MissingMarker(source)) =>
    /\ steps = <<>>
    /\ names = Null
    /\ code = source
    /\ ppc \in {"guards", "done"}
    /\ ppc = "done" => Res = FailureResult(NotRecognizedLabel)

\* C8 witness: an input with the registry tag and without the type tag, and
\* without the signature, was turned down.
C8_Witness ==
  /\ ppc = "done"
  /\ Includes(source, <<BackendRegistry>>)
  /\ ~ Includes(source, <<TypeTmux>>)
  /\ ~ CarriesSignature(source)

\* Every role pattern matches src and every hard edit finds its anchor in it.
AllAnchors(src) ==
  /\ tmuxClassMatch(src) # 0 /\ cascadeMatch(src) # 0 /\ execMatch(src) # 0
  /\ iterm2Match(src) # 0 /\ logMatch(src) # 0 /\ tmuxSyncMatch(src) # 0
  /\ Includes(src, tmuxBackendAnchor(Bundle(src)))
  /\ Includes(src, cascadeAnchor)
  /\ letKMatch(src, IndexOf(src, cascadeAnchor)) # 0
  /\ Includes(src, errorAnchor)
  /\ Includes(src, backendByTypeAnchor(Bundle(src)))
  /\ Includes(src, inProcessAnchor(Bundle(src)))

\* C9: apply-once round trip - an input with all required anchors and without
\* the signature is patched with success, the patched text satisfies the
\* already-patched predicate, and patchCliSource run on the patched text gives
\* the already-patched failure with no edit carried out.
C9_ApplyOnceRoundTrip ==
  (ppc = "done" /\ AllAnchors(origSource) /\ ~ CarriesSignature(origSource)) =>
    IF run = 1
    THEN /\ Res.success
         /\ ~ Res.patchedSource.isNull
         /\ AlreadyPatched(Res.patchedSource.val)
    ELSE /\ Res = FailureResult(AlreadyPatchedLabel)
         /\ steps = <<>>

\* C9 witness: the second run, on the patched text of a valid input, is over.
C9_Witness ==
  /\ ppc = "done"
  /\ run = 2
  /\ AllAnchors(origSource)
  /\ ~ CarriesSignature(origSource)
  /\ source # origSource

\* Some role pattern of extractMinifiedNames does not match src.
SomeRoleMissing(src) ==
  \/ tmuxClassMatch(src) = 0 \/ cascadeMatch(src) = 0 \/ execMatch(src) = 0
  \/ iterm2Match(src) = 0 \/ logMatch(src) = 0 \/ tmuxSyncMatch(src) = 0

\* C10: extraction is all-or-nothing - when a role pattern does not match,
\* extractMinifiedNames returns null and patchCliSource returns the single
\* extraction failure with no edit attempted; an edit only ever runs with a
\* bundle in which every role is populated.
C10_ExtractionAllOrNothing ==
  /\ (InSeq("extract", steps) /\ SomeRoleMissing(source)) =>
       /\ names = Null
       /\ steps = <<"extract">>
       /\ ppc = "done"
       /\ Res = FailureResult(ExtractionFailedLabel)
  /\ ~ names.isNull => \A role \in DOMAIN names.val : names.val[role] # Undefined
  /\ (\E i \in 1 .. Len(steps) : steps[i] \in EditSteps) => ~ names.isNull

\* C10 witness: extraction failed on an input in which only the logger
\* pattern does not match.
C10_Witness ==
  /\ ppc = "done"
  /\ steps = <<"extract">>
  /\ logMatch(source) = 0
  /\ tmuxClassMatch(source) # 0 /\ cascadeMatch(source) # 0 /\ execMatch(source) # 0
  /\ iterm2Match(source) # 0 /\ tmuxSyncMatch(source) # 0

\* ----------------------------------------------------------- claims: messages
\* The labels of the hard edits and of the message replacements.
MessageLabels ==
  {errorMsgReplacements[i].appliedLabel : i \in 1 .. Len(errorMsgReplacements)}
  \cup {errorMsgReplacements[i].warningLabel : i \in 1 .. Len(errorMsgReplacements)}

Count(x, seq) == Cardinality({i \in 1 .. Len(seq) : seq[i] = x})

\* A run that went through all the edits has returned.
EditsDone == ppc = "done" /\ Len(steps) = 8

\* src without its message literals.
StripMessages(src) ==
  SelectSeq(src, LAMBDA x : \A i \in 1 .. Len(errorMsgReplacements) :
                             x # errorMsgReplacements[i].find)

\* C11 as stated: five message replacements are attempted, each giving one
\* applied label or one warning.
C11_FiveMessages ==
  EditsDone =>
    Cardinality({i \in 1 .. Len(Res.appliedPatches) : Res.appliedPatches[i] \in MessageLabels})
      + Len(Res.warnings) = 5

\* C11 as amended: there are two message replacements; each literal that is
\* absent from the input gives exactly one warning and no failure, each one
\* that is present is reported as applied exactly once, the warnings are
\* exactly those of the absent literals (0 to 2), and success is what it is
\* for the same input without any message literal.
C11_BestEffortMessages ==
  (EditsDone /\ run = 1) =>
    /\ Len(errorMsgReplacements) = 2
    /\ \A i \in 1 .. Len(errorMsgReplacements) :
         LET r == errorMsgReplacements[i]
         IN IF Includes(origSource, <<r.find>>)
            THEN /\ Count(r.appliedLabel, Res.appliedPatches) = 1
                 /\ Count(r.warningLabel, Res.warnings) = 0
            ELSE /\ Count(r.appliedLabel, Res.appliedPatches) = 0
                 /\ Count(r.warningLabel, Res.warnings) = 1
    /\ Len(Res.warnings) =
         Cardinality({i \in 1 .. Len(errorMsgReplacements) :
                        ~ Includes(origSource, <<errorMsgReplacements[i].find>>)})
    /\ \A j \in 1 .. Len(Res.failedPatches) : Res.failedPatches[j] \notin MessageLabels
    /\ Res.success = patchCliSource(StripMessages(origSource)).success

\* C11 witness: an input with neither message literal was patched with
\* success and two warnings.
C11_Witness ==
  /\ EditsDone
  /\ run = 1
  /\ Len(Res.warnings) = 2
  /\ Res.success

\* The stepwise run and the single call agree.
StepwiseIsCall == ppc = "done" => Res = patchCliSource(source)

\* ------------------------------------------------------------- claims: renaming
\* src with the host identifier a renamed to b throughout.
Rename(src, a, b) == [i \in DOMAIN src |-> IF src[i] = a THEN b ELSE src[i]]

\* C12 as stated: rename invariance - an input and the same input with one
\* of its mangled identifiers consistently renamed to a name it does not use
\* get the same success value and the same applied and failed labels.
C12_RenameInvariance ==
  (ppc = "done" /\ run = 1) =>
    \A a, b \in WordIdents :
      (InSeq(a, source) /\ ~ InSeq(b, source)) =>
        LET r == patchCliSource(Rename(source, a, b))
        IN /\ r.success = Res.success
           /\ r.appliedPatches = Res.appliedPatches
           /\ r.failedPatches = Res.failedPatches

\* --------------------------------------------------------- claims: command line
\* A command of the command line has ended.
Ended(cmd) == cpc = "idle" /\ lastCmd.cmd = cmd

\* What a command reports when it did not do what it was asked to.
FailureOutcomes == {"notFound", "patchFailed", "noBackup"}

\* C13 as stated: install, check and uninstall exit with status zero only
\* when the operation succeeded; every failure, a target path that does not
\* exist or cannot be located included, gives a non-zero exit status.
C13_ExitStatus ==
  (cpc = "idle" /\ lastCmd.cmd \in CliCommands /\ lastCmd.outcome \in FailureOutcomes) =>
    lastCmd.exit # 0

\* C14: only successful operations write - check and an install whose
\* pipeline reports failure leave the target and the backup as they were;
\* cmdInstall gets to its copy and write only with a result that has success
\* and a non-null patchedSource, and what it writes is that patchedSource.
C14_OnlySuccessWrites ==
  /\ (Ended("check") \/ (Ended("install") /\ lastCmd.outcome # "patched")) =>
       (target = target0 /\ bak = bak0)
  /\ cpc \in {"backup", "write"} =>
       /\ ~ cliResult.isNull
       /\ cliResult.val.success
       /\ ~ cliResult.val.patchedSource.isNull
       /\ target = target0
  /\ (Ended("install") /\ lastCmd.outcome = "patched") =>
       /\ patchCliSource(target0.val).success
       /\ target = patchCliSource(target0.val).patchedSource

\* C14 witness: an install failed on a target that has a backup, the target
\* being the patched text of an earlier install.
C14_Witness ==
  /\ Ended("install")
  /\ lastCmd.outcome = "patchFailed"
  /\ ~ bak.isNull
  /\ AlreadyPatched(target.val)

\* C15: backup stability - once the backup exists no step of install, check
\* or uninstall, and no replacement of the target, changes or deletes it.
C15_BackupStability == [][~ bak.isNull => bak' = bak]_vars

\* C15 witness: an install succeeded on a new version of the target while
\* the backup of an older version was there, and the backup is still the
\* older version.
C15_Witness ==
  /\ Ended("install")
  /\ lastCmd.outcome = "patched"
  /\ ~ bak0.isNull
  /\ bak = bak0
  /\ bak # preInstall

\* C16 as stated: uninstall reverts the install - after a successful install
\* followed by uninstall the target holds what it held right before that
\* install, whatever happened earlier.
C16_UninstallReverts ==
  (Ended("uninstall") /\ lastCmd.outcome = "restored" /\ ~ preInstall.isNull) =>
    target = preInstall

C18_ReleaseExactlyOnce ==
  \A c \in Callers :
    pc[c] \in {"createFailed", "sendFailed", "done"} => releaseCalls[c] = 1

\* ----------------------------------------------------------- claims: isolation
\* extractMinifiedNames and the edits in the order of the code.
FullOrder ==
  <<"extract", "patch1", "patch2", "patch3", "patch4", "patch5.1", "patch5.2", "patch6">>

IsPrefix(a, b) == Len(a) <= Len(b) /\ \A i \in 1 .. Len(a) : a[i] = b[i]

AllLabels == applied \o failed \o warnings

\* What has run is the start of the fixed order, with one label per edit
\* and no label twice; a run that got past extraction ends after all of it.
C19_Order ==
  ppc # "off" =>
    /\ IsPrefix(steps, FullOrder)
    /\ Len(AllLabels) = (IF steps = <<>> THEN 0 ELSE Len(steps) - 1)
    /\ Cardinality({AllLabels[i] : i \in 1 .. Len(AllLabels)}) = Len(AllLabels)
    /\ (ppc \in {"return", "done"} /\ ~ names.isNull) => steps = FullOrder
    /\ (ppc = "done" /\ ~ names.isNull) =>
         /\ Res.appliedPatches = applied
         /\ Res.failedPatches = failed
         /\ Res.warnings = warnings

\* One edit: it adds one label to one list and keeps the earlier ones, and
\* when it fails the working text stays as it is.
C19_Step ==
  (Len(steps) \in 1 .. 7 /\ steps' = Append(steps, FullOrder[Len(steps) + 1])) =>
    /\ Len(AllLabels') = Len(AllLabels) + 1
    /\ IsPrefix(applied, applied') /\ IsPrefix(failed, failed') /\ IsPrefix(warnings, warnings')
    /\ failed' # failed => (Len(failed') = Len(failed) + 1 /\ code' = code)

\* C19: edit failure isolation - once the guards and the extraction pass,
\* each hard edit and each message pair is attempted exactly once, in the
\* fixed order, whatever the earlier outcomes; a failing edit records exactly
\* one failure label and leaves the working text unchanged, the later edits
\* still run, and each edit's label ends in exactly one of applied, failed
\* and warnings.
C19_EditFailureIsolation == [] C19_Order /\ [][C19_Step]_vars

\* C19 witness: the first edit failed and at least five later ones were applied.
C19_Witness ==
  /\ ppc = "done"
  /\ steps = FullOrder
  /\ Len(Res.failedPatches) >= 1
  /\ Res.failedPatches[1] = "PATCH 1: Could not find TmuxBackend class anchor"
  /\ Len(Res.appliedPatches) >= 5

\* ----------------------------------------------------------- claims: collisions
\* The parameters and locals of the methods of ZELLIJ_BACKEND_CLASS that call
\* execFn or logFn, and the locals of zellijCheck and zellijFallback.
BackendClassLocals == {"A", "q", "K", "Y", "w", "z", "H", "$", "O"}
CascadeLocals == {"ZA", "ZB"}

\* C20 as stated: no name collision - whatever bundle the extractor returns,
\* no parameter or local of a generated fragment has the name of a host
\* identifier that fragment calls or assigns.
C20_NoNameCollision ==
  ~ names.isNull =>
    /\ {names.val.execFn, names.val.logFn} \cap BackendClassLocals = {}
    /\ {names.val.logFn, names.val.cachedBackendRef, names.val.cachedResultVar}
         \cap CascadeLocals = {}

\* --------------------------------------------------------------- claims: reset
\* C21: reset drops the queue - after resetZellijBackendState the queue is a
\* resolved promise that belongs to no caller, so the next acquire (and any
\* acquire waiting on such a promise) resolves without waiting for a holder
\* or waiter from before the reset.
C21_ResetDropsQueue ==
  /\ lockQueue \notin Callers => lockQueue \in resolved
  /\ \A c \in Callers :
       (pc[c] = "awaitLock" /\ prev[c] \notin Callers) => prev[c] \in resolved

\* C21 witness: after a reset issued while the lock was held, two callers
\* are inside create+send sections at once.
C21_Witness ==
  \E c, d \in Callers :
    /\ c # d
    /\ InSection(c) /\ InSection(d)
    /\ releaseCalls[c] = 0 /\ releaseCalls[d] = 0
    /\ prev[d] = InitialPromise
    /\ PosIn(c, reqOrder) < PosIn(d, reqOrder)

\* -------------------------------------------------------------- claims: backup
\* C22: backup precedes overwrite - when cmdInstall is about to write the
\* target the backup exists, and in no state does the target hold text that
\* install wrote (text that did not come from outside) without a backup
\* being there.
C22_BackupPrecedesOverwrite ==
  /\ cpc = "write" => ~ bak.isNull
  /\ (~ target.isNull /\ target.val \notin CliTexts) => ~ bak.isNull
  /\ (Ended("install") /\ lastCmd.outcome = "patched") => ~ bak.isNull

\* C22 witness: an install that found no backup has made one and written
\* the patched text.
C22_Witness ==
  /\ Ended("install")
  /\ lastCmd.outcome = "patched"
  /\ bak0.isNull
  /\ bak = preInstall
  /\ CarriesSignature(target.val)

\* C23: the backup is never patched text - the content of a backup made by
\* install never satisfies the already-patched predicate, and it is a text
\* patchCliSource succeeds on.
C23_BackupNeverPatched ==
  ~ bak.isNull =>
    /\ ~ CarriesSignature(bak.val)
    /\ patchCliSource(bak.val).success

\* C23 witness: the target holds text with the signature that came from
\* outside, an install on it failed, and the backup of an earlier install
\* is there.
C23_Witness ==
  /\ Ended("install")
  /\ lastCmd.outcome = "patchFailed"
  /\ ~ bak.isNull
  /\ target \in {Some(t) : t \in CliTexts}
  /\ CarriesSignature(target.val)

\* ------------------------------------------------------ claims: first teammate
\* The create call of caller c has returned its {paneId, isFirstTeammate}.
Returned(c) == pc[c] \in {"created", "writeChars", "enter", "done", "sendFailed"}

\* The callers whose create call got past the lock and counted its pane.
Counted == {c \in Callers : pc[c] \notin {"off", "idle", "awaitLock", "locked"}}

\* C24: first-teammate flag - isFirst is true only in the first create call
\* that got past the lock, the count being incremented before new-pane ends;
\* at most one call returns isFirstTeammate = true, and when the first call
\* failed no call returns true.
C24_FirstTeammateFlag ==
  /\ paneCreationCount = Cardinality(Counted)
  /\ \A c \in Callers : isFirst[c] => (acqOrder # <<>> /\ acqOrder[1] = c)
  /\ Cardinality({c \in Callers : Returned(c) /\ isFirst[c]}) <= 1
  /\ (acqOrder # <<>> /\ pc[acqOrder[1]] = "createFailed") =>
       \A c \in Callers : Returned(c) => ~ isFirst[c]

\* C24 witness: the first create call failed and a later one returned, with
\* isFirstTeammate = false.
C24_Witness ==
  /\ acqOrder # <<>>
  /\ pc[acqOrder[1]] = "createFailed"
  /\ \E c \in Callers : pc[c] = "done" /\ ~ isFirst[c]

====
